---- MODULE Spec2Model ----
(***************************************************************************)
(* A model of camt53_file_parser.py: the extraction of bank statements     *)
(* (ISO 20022 CAMT.053) from an XML tree into typed records.               *)
(*                                                                         *)
(* Representation.                                                         *)
(*   - A Python Optional value is a sequence of length 0 (None) or 1.      *)
(*   - A Python str is a sequence of one-character strings, so that        *)
(*     strip(), slicing and the ISO date syntax are computed, not assumed. *)
(*   - An lxml element is a record [text, attrib, kids]: text is an        *)
(*     Optional str, attrib a function from attribute names to str, kids   *)
(*     a function from a relative path to the sequence of the elements     *)
(*     found at that path, in document order.                              *)
(*   - A raised exception is a record [type, msg, arg]; a function that    *)
(*     may raise returns [err, val].                                       *)
(***************************************************************************)
EXTENDS Integers, Sequences, FiniteSets, TLC

VARIABLES
    doc,              \* the Stmt nodes of the parsed tree (root.findall), in document order
    pc,               \* position of parse_xml / parse_statement
    si,               \* index of the Stmt node the comprehension of parse_xml is at
    statements,       \* the list being built by the comprehension of parse_xml
    head,             \* locals of parse_statement set by lines 480-484
    bi,               \* number of Bal blocks the loop of parse_statement has completed
    balance,          \* local `balance` of parse_statement (last Balance built)
    opening_balance,  \* local of parse_statement
    closing_balance,  \* local of parse_statement
    transactions,     \* the list being built by the comprehension of parse_transactions
    warnings,         \* number of RuntimeWarnings emitted by parse_date_isoformat
    notices,          \* number of "No transactions found!" lines printed
    error,            \* the exception that ended parse_xml, if any
    result,           \* the value parse_xml returned, if it returned
    idroot,           \* identifier extraction: the element handed to from_xml
    idpc,             \* identifier extraction: position
    bank_id,          \* identifier extraction: BankId.from_xml(idroot)
    account_id,       \* identifier extraction: AccountId.from_xml(idroot)
    id_str,           \* identifier extraction: str() of the identifier
    date_in,          \* date parsing: the string handed to parse_date_isoformat
    date_pc,          \* date parsing: position
    date_out,         \* date parsing: the date returned, if any
    date_warned,      \* date parsing: number of RuntimeWarnings emitted
    date_err          \* date parsing: the exception that left the call, if any

vars == <<doc, pc, si, statements, head, bi, balance, opening_balance,
          closing_balance, transactions, warnings, notices, error, result,
          idroot, idpc, bank_id, account_id, id_str,
          date_in, date_pc, date_out, date_warned, date_err>>

parseVars == <<doc, pc, si, statements, head, bi, balance, opening_balance,
               closing_balance, transactions, warnings, notices, error, result>>

idVars == <<idroot, idpc, bank_id, account_id, id_str>>

dateVars == <<date_in, date_pc, date_out, date_warned, date_err>>

----------------------------------------------------------------------------
(* Optional values, strings, exceptions *)

None == <<>>

Some(v) == <<v>>

IsNone(o) == Len(o) = 0

Val(o) == o[1]

\* Python truthiness of an Optional[str]: None and "" are falsy.
Truthy(o) == Len(o) = 1 /\ Len(o[1]) > 0

\* Python `a or b` on Optional[str] operands.
PyOr(a, b) == IF Truthy(a) THEN a ELSE b

IsSpace(c) == c \in {" ", "\t", "\n", "\r"}

RECURSIVE LStrip(_)
LStrip(s) == IF Len(s) > 0 /\ IsSpace(s[1]) THEN LStrip(Tail(s)) ELSE s

RECURSIVE RStrip(_)
RStrip(s) ==
    IF Len(s) > 0 /\ IsSpace(s[Len(s)]) THEN RStrip(SubSeq(s, 1, Len(s) - 1)) ELSE s

\* str.strip()
Strip(s) == RStrip(LStrip(s))

\* s[:n]
Prefix(s, n) == SubSeq(s, 1, IF Len(s) < n THEN Len(s) ELSE n)

NoErr == [type |-> "none", msg |-> "", arg |-> None]

Raise(type, msg, arg) == [type |-> type, msg |-> msg, arg |-> arg]

Ok(v) == [err |-> NoErr, val |-> v]

Fail(e) == [err |-> e, val |-> None]

IsOk(r) == r.err.type = "none"

----------------------------------------------------------------------------
(* lxml elements *)

NoMap == [p \in {} |-> None]

Elem(text, attrib, kids) == [text |-> text, attrib |-> attrib, kids |-> kids]

\* <tag>text</tag>; <tag/> has text None.
Leaf(text) == Elem(text, NoMap, NoMap)

\* _Element.findall(path)
findall(e, path) == IF path \in DOMAIN e.kids THEN e.kids[path] ELSE <<>>

\* _Element.find(path): the first match or None
find(e, path) ==
    IF Len(findall(e, path)) = 0 THEN None ELSE Some(findall(e, path)[1])

----------------------------------------------------------------------------
(* Field accessors *)

\* e: Optional[_Element], path: Optional[str], strip: bool
get_text_or_none(e, path, strip) ==
    IF IsNone(e) THEN None
    ELSE LET e2 == IF IsNone(path) THEN e ELSE find(Val(e), Val(path))
         IN  IF IsNone(e2) THEN None
             ELSE LET text == Val(e2).text
                  IN  IF strip /\ ~IsNone(text) THEN Some(Strip(Val(text)))
                      ELSE text

get_text(e, path, strip) ==
    LET text == get_text_or_none(e, path, strip)
    IN  IF IsNone(text)
        THEN Fail(Raise("ValueError", "Missing mandatory element", None))
        ELSE Ok(Val(text))

get_element(root, path) ==
    LET e == find(root, path)
    IN  IF IsNone(e)
        THEN Fail(Raise("ValueError", "Missing mandatory element", Some(path)))
        ELSE Ok(Val(e))

\* e.attrib[attr] raises KeyError(attr) when the attribute is missing.
get_attribute(e, attr) ==
    IF attr \in DOMAIN e.attrib THEN Ok(e.attrib[attr])
    ELSE Fail(Raise("KeyError", "", Some(attr)))

----------------------------------------------------------------------------
(* Identifiers and references *)

CRDT == <<"C", "R", "D", "T">>

DBIT == <<"D", "B", "I", "T">>

\* CreditOrDebit(value): the Enum lookup raises ValueError for any other literal.
CreditOrDebit(value) ==
    IF value \in {CRDT, DBIT} THEN Ok(value)
    ELSE Fail(Raise("ValueError", "is not a valid CreditOrDebit", Some(value)))

\* A string form that preferred the generic id.
BankId_str_id_first(self) == Val(PyOr(PyOr(self.id, self.bic), Some(<<>>)))

\* BankId.__str__
BankId_str(self) == Val(PyOr(PyOr(self.bic, self.id), Some(<<>>)))

\* BankId.from_xml(root), root: Optional[_Element]
BankId_from_xml(root) ==
    LET bic == PyOr(get_text_or_none(root, Some("BIC"), TRUE),
                    get_text_or_none(root, Some("BICFI"), TRUE))
        id  == get_text_or_none(root, Some("Othr/Id"), TRUE)
    IN  IF Truthy(bic) \/ Truthy(id) THEN Some([bic |-> bic, id |-> id]) ELSE None

\* AccountId.__str__
AccountId_str(self) == Val(PyOr(PyOr(self.iban, self.id), Some(<<>>)))

\* An extractor without the presence test.
AccountId_from_xml_unchecked(root) ==
    Some([iban |-> get_text_or_none(root, Some("IBAN"), TRUE),
          id   |-> get_text_or_none(root, Some("Othr/Id"), TRUE)])

\* AccountId.from_xml(root), root: Optional[_Element]
AccountId_from_xml(root) ==
    LET iban == get_text_or_none(root, Some("IBAN"), TRUE)
        id   == get_text_or_none(root, Some("Othr/Id"), TRUE)
    IN  IF Truthy(iban) \/ Truthy(id) THEN Some([iban |-> iban, id |-> id]) ELSE None

\* TransactionRef.from_xml(root), root: Optional[_Element]
TransactionRef_from_xml(root) ==
    IF IsNone(root)
    THEN [message_id |-> None, end_to_end_id |-> None, account_servicer_ref |-> None,
          payment_invocation_id |-> None, instruction_id |-> None, mandate_id |-> None,
          cheque_number |-> None, clearing_system_ref |-> None]
    ELSE [message_id            |-> get_text_or_none(root, Some("MsgId"), TRUE),
          account_servicer_ref  |-> get_text_or_none(root, Some("AcctSvcrRef"), TRUE),
          payment_invocation_id |-> get_text_or_none(root, Some("PmtInfId"), TRUE),
          instruction_id        |-> get_text_or_none(root, Some("InstrId"), TRUE),
          end_to_end_id         |-> get_text_or_none(root, Some("EndToEndId"), TRUE),
          mandate_id            |-> get_text_or_none(root, Some("MndtId"), TRUE),
          cheque_number         |-> get_text_or_none(root, Some("ChqNb"), TRUE),
          clearing_system_ref   |-> get_text_or_none(root, Some("ClrSysRef"), TRUE)]

----------------------------------------------------------------------------
(* Decimal, date and datetime *)

Digits == <<"0", "1", "2", "3", "4", "5", "6", "7", "8", "9">>

IsDigit(c) == \E i \in 1..10 : Digits[i] = c

DigitVal(c) == (CHOOSE i \in 1..10 : Digits[i] = c) - 1

AllDigits(s) == \A i \in 1..Len(s) : IsDigit(s[i])

RECURSIVE NumOf(_)
NumOf(s) ==
    IF Len(s) = 0 THEN 0
    ELSE 10 * NumOf(SubSeq(s, 1, Len(s) - 1)) + DigitVal(s[Len(s)])

\* Position of the first "." of s, or 0.
PointAt(s) ==
    IF \E i \in 1..Len(s) : s[i] = "."
    THEN CHOOSE i \in 1..Len(s) : s[i] = "." /\ \A j \in 1..(i - 1) : s[j] # "."
    ELSE 0

\* decimal.Decimal(text) for the plain forms [sign] digits [. digits]; the value
\* is Decimal's own triple (sign, coefficient, exponent).  Exponent forms and
\* the special values NaN/Infinity are outside the texts the model draws.
Decimal(text) ==
    LET signed == Len(text) > 0 /\ text[1] \in {"+", "-"}
        body   == IF signed THEN Tail(text) ELSE text
        p      == PointAt(body)
        int    == IF p = 0 THEN body ELSE SubSeq(body, 1, p - 1)
        frac   == IF p = 0 THEN <<>> ELSE SubSeq(body, p + 1, Len(body))
    IN  IF AllDigits(int) /\ AllDigits(frac) /\ Len(int) + Len(frac) > 0
        THEN Ok([sign |-> IF signed /\ text[1] = "-" THEN 1 ELSE 0,
                 coef |-> NumOf(int \o frac),
                 exp  |-> 0 - Len(frac)])
        ELSE Fail(Raise("InvalidOperation", "ConversionSyntax", Some(text)))

\* Decimal.__mul__ (exact below the context precision of 28 digits)
DecMul(a, b) ==
    [sign |-> (a.sign + b.sign) % 2, coef |-> a.coef * b.coef, exp |-> a.exp + b.exp]

\* The int -1 as a Decimal
MinusOne == [sign |-> 1, coef |-> 1, exp |-> 0]

IsLeap(y) == (y % 4 = 0 /\ y % 100 # 0) \/ y % 400 = 0

DaysIn(y, m) ==
    IF m = 2 THEN (IF IsLeap(y) THEN 29 ELSE 28)
    ELSE IF m \in {4, 6, 9, 11} THEN 30 ELSE 31

\* datetime.date.fromisoformat(s), the YYYY-MM-DD form.
date_fromisoformat(s) ==
    IF /\ Len(s) = 10
       /\ s[5] = "-" /\ s[8] = "-"
       /\ AllDigits(SubSeq(s, 1, 4)) /\ AllDigits(SubSeq(s, 6, 7))
       /\ AllDigits(SubSeq(s, 9, 10))
       /\ NumOf(SubSeq(s, 1, 4)) >= 1
       /\ NumOf(SubSeq(s, 6, 7)) \in 1..12
       /\ NumOf(SubSeq(s, 9, 10)) >= 1
       /\ NumOf(SubSeq(s, 9, 10)) <= DaysIn(NumOf(SubSeq(s, 1, 4)), NumOf(SubSeq(s, 6, 7)))
    THEN Ok([year  |-> NumOf(SubSeq(s, 1, 4)),
             month |-> NumOf(SubSeq(s, 6, 7)),
             day   |-> NumOf(SubSeq(s, 9, 10))])
    ELSE Fail(Raise("ValueError", "Invalid isoformat string", Some(s)))

\* A retry that emitted no warning.
parse_date_isoformat_silent(s) ==
    LET strict == date_fromisoformat(s)
        retry  == date_fromisoformat(Prefix(s, 10))
    IN  IF IsOk(strict) THEN [err |-> NoErr, val |-> strict.val, warned |-> 0]
        ELSE [err |-> retry.err, val |-> retry.val, warned |-> 0]

\* parse_date_isoformat(s): [err, val, warned]; warned is the number of
\* RuntimeWarnings the call emitted.
parse_date_isoformat(s) ==
    LET strict == date_fromisoformat(s)
    IN  IF IsOk(strict) THEN [err |-> NoErr, val |-> strict.val, warned |-> 0]
        ELSE LET retry == date_fromisoformat(Prefix(s, 10))
             IN  [err |-> retry.err, val |-> retry.val, warned |-> 1]

\* HH[:MM[:SS]] as <<hour, minute, second>>, or << >> when malformed.
TimeOf(t) ==
    LET two(i) == NumOf(SubSeq(t, i, i + 1))
        okHH == Len(t) >= 2 /\ AllDigits(SubSeq(t, 1, 2)) /\ two(1) <= 23
        okMM == Len(t) >= 5 /\ t[3] = ":" /\ AllDigits(SubSeq(t, 4, 5)) /\ two(4) <= 59
        okSS == Len(t) = 8 /\ t[6] = ":" /\ AllDigits(SubSeq(t, 7, 8)) /\ two(7) <= 59
    IN  IF Len(t) = 2 /\ okHH THEN <<two(1), 0, 0>>
        ELSE IF Len(t) = 5 /\ okHH /\ okMM THEN <<two(1), two(4), 0>>
        ELSE IF okHH /\ okMM /\ okSS THEN <<two(1), two(4), two(7)>>
        ELSE <<>>

\* Position of the first "+" or "-" of s, or 0.
OffsetAt(s) ==
    IF \E i \in 1..Len(s) : s[i] \in {"+", "-"}
    THEN CHOOSE i \in 1..Len(s) :
            s[i] \in {"+", "-"} /\ \A j \in 1..(i - 1) : s[j] \notin {"+", "-"}
    ELSE 0

\* datetime.datetime.fromisoformat(s): YYYY-MM-DD[*HH[:MM[:SS]][+HH:MM]], the
\* forms every supported interpreter accepts (fractions of a second left out).
datetime_fromisoformat(s) ==
    LET bad  == Fail(Raise("ValueError", "Invalid isoformat string", Some(s)))
        d    == date_fromisoformat(Prefix(s, 10))
        rest == SubSeq(s, 12, Len(s))
        o    == OffsetAt(rest)
        tstr == IF o = 0 THEN rest ELSE SubSeq(rest, 1, o - 1)
        ostr == IF o = 0 THEN <<>> ELSE SubSeq(rest, o + 1, Len(rest))
        t    == TimeOf(tstr)
        off  == TimeOf(ostr)
    IN  IF ~IsOk(d) THEN bad
        ELSE IF Len(s) = 10
             THEN Ok([date |-> d.val, time |-> <<0, 0, 0>>, tz |-> None])
        ELSE IF Len(s) = 11 \/ Len(t) = 0 THEN bad
        ELSE IF o = 0 THEN Ok([date |-> d.val, time |-> t, tz |-> None])
        ELSE IF Len(ostr) # 5 \/ Len(off) = 0 THEN bad
        ELSE Ok([date |-> d.val, time |-> t, tz |-> Some(<<rest[o], off[1], off[2]>>)])

----------------------------------------------------------------------------
(* parse_statement, parse_transaction *)

\* Result of a step that may raise and may warn.
Step(err, val, warned) == [err |-> err, val |-> val, warned |-> warned]

RECURSIVE Join(_, _)
\* sep.join(items) on a sequence of str
Join(sep, items) ==
    IF Len(items) = 0 THEN <<>>
    ELSE IF Len(items) = 1 THEN items[1]
    ELSE items[1] \o sep \o Join(sep, Tail(items))

\* ", ".join(get_text_or_none(element) for element in remote_info_elements):
\* str.join raises TypeError at the first item that is None.
remote_info_join(elements) ==
    LET texts == [i \in 1..Len(elements) |-> get_text_or_none(Some(elements[i]), None, TRUE)]
    IN  IF \E i \in 1..Len(texts) : IsNone(texts[i])
        THEN Fail(Raise("TypeError", "sequence item: expected str instance, NoneType found",
                        Some(CHOOSE i \in 1..Len(texts) :
                                IsNone(texts[i]) /\ \A j \in 1..(i - 1) : ~IsNone(texts[j]))))
        ELSE Ok(Join(<<",", " ">>, [i \in 1..Len(texts) |-> Val(texts[i])]))

\* A fallback on the extracted value instead of on the node.
related_account_id_by_value(ntry) ==
    LET dbtr == AccountId_from_xml(find(ntry, "NtryDtls/TxDtls/RltdPties/DbtrAcct/Id"))
        cdtr == AccountId_from_xml(find(ntry, "NtryDtls/TxDtls/RltdPties/CdtrAcct/Id"))
    IN  IF ~IsNone(dbtr) THEN dbtr ELSE cdtr

\* Lines 578-586: the related account identifier.
related_account_id_of(ntry) ==
    LET dbtr_acct_id == find(ntry, "NtryDtls/TxDtls/RltdPties/DbtrAcct/Id")
        cdtr_acct_id == find(ntry, "NtryDtls/TxDtls/RltdPties/CdtrAcct/Id")
    IN  IF ~IsNone(dbtr_acct_id) THEN AccountId_from_xml(dbtr_acct_id)
        ELSE IF ~IsNone(cdtr_acct_id) THEN AccountId_from_xml(cdtr_acct_id)
        ELSE None

\* Lines 588-596: the related bank identifier.
related_account_bank_id_of(ntry) ==
    LET dbtr_agt_id == find(ntry, "NtryDtls/TxDtls/RltdAgts/DbtrAgt/FinInstnId")
        cdtr_agt_id == find(ntry, "NtryDtls/TxDtls/RltdAgts/CdtrAgt/FinInstnId")
    IN  IF ~IsNone(dbtr_agt_id) THEN BankId_from_xml(dbtr_agt_id)
        ELSE IF ~IsNone(cdtr_agt_id) THEN BankId_from_xml(cdtr_agt_id)
        ELSE None

\* A code read whoever issued it.
bai_code_any_issuer(ntry) == get_text_or_none(Some(ntry), Some("BkTxCd/Prtry/Cd"), TRUE)

\* Lines 565-569
bai_code_of(ntry) ==
    IF get_text_or_none(Some(ntry), Some("BkTxCd/Prtry/Issr"), TRUE) = Some(<<"B", "A", "I">>)
    THEN get_text_or_none(Some(ntry), Some("BkTxCd/Prtry/Cd"), TRUE)
    ELSE None

\* Lines 556-559
operation_of(tmp) == IF tmp = DBIT THEN "debit" ELSE "credit"

\* Transaction(...): pydantic validates the declared field types; book_datetime
\* is declared `str`, every other field that can hold None is Optional.
Transaction(fields) ==
    IF IsNone(fields.book_datetime)
    THEN Fail(Raise("ValidationError", "Input should be a valid string",
                    Some("book_datetime")))
    ELSE Ok(fields)

\* A transaction that negated debit amounts, as a balance does.
transaction_amount_signed(amount, tmp) ==
    IF tmp = DBIT THEN DecMul(amount, MinusOne) ELSE amount

\* The amount a transaction stores (line 554; no sign change).
transaction_amount(amount, tmp) == amount

parse_transaction(ntry) ==
    LET entry_ref == get_text(Some(ntry), Some("NtryRef"), TRUE)
        ref       == TransactionRef_from_xml(find(ntry, "NtryDtls/TxDtls/Refs"))
        amt       == get_element(ntry, "Amt")
        currency  == get_attribute(amt.val, "Ccy")
        amt_text  == get_text(Some(amt.val), None, TRUE)
        amount    == Decimal(amt_text.val)
        ind_text  == get_text(Some(ntry), Some("CdtDbtInd"), TRUE)
        tmp       == CreditOrDebit(ind_text.val)
        val_text  == get_text(Some(ntry), Some("ValDt/Dt"), TRUE)
        val_date  == parse_date_isoformat(val_text.val)
        remote    == remote_info_join(findall(ntry, "NtryDtls/TxDtls/RmtInf/Ustrd"))
        tx        == Transaction(
                       [entry_ref      |-> entry_ref.val,
                        ref            |-> ref,
                        amount         |-> transaction_amount(amount.val, tmp.val),
                        currency       |-> currency.val,
                        operation      |-> operation_of(tmp.val),
                        val_date       |-> val_date.val,
                        book_datetime  |-> get_text_or_none(Some(ntry), Some("BookgDt/DtTm"), TRUE),
                        bai_code       |-> bai_code_of(ntry),
                        remote_info    |-> Some(remote.val),
                        additional_transaction_info |->
                            get_text_or_none(Some(ntry), Some("NtryDtls/TxDtls/AddtlTxInf"), TRUE),
                        related_account_id      |-> related_account_id_of(ntry),
                        related_account_bank_id |-> related_account_bank_id_of(ntry)])
    IN  IF ~IsOk(entry_ref) THEN Step(entry_ref.err, None, 0)
        ELSE IF ~IsOk(amt) THEN Step(amt.err, None, 0)
        ELSE IF ~IsOk(currency) THEN Step(currency.err, None, 0)
        ELSE IF ~IsOk(amt_text) THEN Step(amt_text.err, None, 0)
        ELSE IF ~IsOk(amount) THEN Step(amount.err, None, 0)
        ELSE IF ~IsOk(ind_text) THEN Step(ind_text.err, None, 0)
        ELSE IF ~IsOk(tmp) THEN Step(tmp.err, None, 0)
        ELSE IF ~IsOk(val_text) THEN Step(val_text.err, None, 0)
        ELSE IF ~IsOk(val_date) THEN Step(val_date.err, None, val_date.warned)
        ELSE IF ~IsOk(remote) THEN Step(remote.err, None, val_date.warned)
        ELSE Step(tx.err, tx.val, val_date.warned)

\* A balance that kept the XML amount whatever the indicator.
balance_amount_unsigned(amount, tmp) == amount

\* Lines 497-498: the amount a balance stores.
balance_amount(amount, tmp) == IF tmp = DBIT THEN DecMul(amount, MinusOne) ELSE amount

\* Lines 492-501: one pass of the loop body up to the Balance; val is
\* [balance, tmp2].
parse_balance(bal) ==
    LET dt_text  == get_text(Some(bal), Some("Dt/Dt"), TRUE)
        bal_date == parse_date_isoformat(dt_text.val)
        amt      == get_element(bal, "Amt")
        bal_currency == get_attribute(amt.val, "Ccy")
        amt_text == get_text(Some(amt.val), None, TRUE)
        amount   == Decimal(amt_text.val)
        ind_text == get_text(Some(bal), Some("CdtDbtInd"), TRUE)
        tmp      == CreditOrDebit(ind_text.val)
        tmp2     == get_text(Some(bal), Some("Tp/CdOrPrtry/Cd"), TRUE)
    IN  IF ~IsOk(dt_text) THEN Step(dt_text.err, None, 0)
        ELSE IF ~IsOk(bal_date) THEN Step(bal_date.err, None, bal_date.warned)
        ELSE IF ~IsOk(amt) THEN Step(amt.err, None, bal_date.warned)
        ELSE IF ~IsOk(bal_currency) THEN Step(bal_currency.err, None, bal_date.warned)
        ELSE IF ~IsOk(amt_text) THEN Step(amt_text.err, None, bal_date.warned)
        ELSE IF ~IsOk(amount) THEN Step(amount.err, None, bal_date.warned)
        ELSE IF ~IsOk(ind_text) THEN Step(ind_text.err, None, bal_date.warned)
        ELSE IF ~IsOk(tmp) THEN Step(tmp.err, None, bal_date.warned)
        ELSE IF ~IsOk(tmp2) THEN Step(tmp2.err, None, bal_date.warned)
        ELSE Step(NoErr,
                  [balance |-> [amount   |-> balance_amount(amount.val, tmp.val),
                                currency |-> bal_currency.val,
                                date     |-> bal_date.val],
                   tmp2    |-> tmp2.val],
                  bal_date.warned)

OPBD == <<"O", "P", "B", "D">>

CLBD == <<"C", "L", "B", "D">>

\* A classification that kept the first balance of each type.
classify_balance_first_wins(tmp2, bal, opening, closing) ==
    IF tmp2 = OPBD THEN <<IF IsNone(opening) THEN Some(bal) ELSE opening, closing>>
    ELSE IF tmp2 = CLBD THEN <<opening, IF IsNone(closing) THEN Some(bal) ELSE closing>>
    ELSE <<opening, closing>>

\* A classification whose second branch was a plain else.
classify_balance_else(tmp2, bal, opening, closing) ==
    IF tmp2 = OPBD THEN <<Some(bal), closing>> ELSE <<opening, Some(bal)>>

\* Lines 503-506: the two balance slots after a Balance with type code tmp2;
\* <<opening_balance, closing_balance>>.
classify_balance(tmp2, bal, opening, closing) ==
    IF tmp2 = OPBD THEN <<Some(bal), closing>>
    ELSE IF tmp2 = CLBD THEN <<opening, Some(bal)>>
    ELSE <<opening, closing>>

\* Lines 480-489: the mandatory fields of a statement.
parse_statement_head(stmt) ==
    LET statement_id == get_text(find(stmt, "Id"), None, TRUE)
        cre_text     == get_text(Some(stmt), Some("CreDtTm"), TRUE)
        created_time == datetime_fromisoformat(cre_text.val)
        fr_text      == get_text(Some(stmt), Some("FrToDt/FrDtTm"), TRUE)
        from_time    == datetime_fromisoformat(fr_text.val)
        to_text      == get_text(Some(stmt), Some("FrToDt/ToDtTm"), TRUE)
        to_time      == datetime_fromisoformat(to_text.val)
        acct         == get_element(stmt, "Acct/Id")
        account      == AccountId_from_xml(Some(acct.val))
    IN  IF ~IsOk(statement_id) THEN Fail(statement_id.err)
        ELSE IF ~IsOk(cre_text) THEN Fail(cre_text.err)
        ELSE IF ~IsOk(created_time) THEN Fail(created_time.err)
        ELSE IF ~IsOk(fr_text) THEN Fail(fr_text.err)
        ELSE IF ~IsOk(from_time) THEN Fail(from_time.err)
        ELSE IF ~IsOk(to_text) THEN Fail(to_text.err)
        ELSE IF ~IsOk(to_time) THEN Fail(to_time.err)
        ELSE IF ~IsOk(acct) THEN Fail(acct.err)
        ELSE IF IsNone(account)
             THEN Fail(Raise("ValueError", "Missing AccountID elements", None))
        ELSE Ok([statement_id |-> statement_id.val,
                 created_time |-> created_time.val,
                 from_time    |-> from_time.val,
                 to_time      |-> to_time.val,
                 account_id   |-> Val(account)])

\* A comprehension that built the list back to front.
collect_transaction_reversed(list, tx) == <<tx>> \o list

\* Line 535: the comprehension of parse_transactions adds each Transaction at
\* the end of the list.
collect_transaction(list, tx) == Append(list, tx)

\* A parse_xml that caught the exception and returned what it had.
returned_on_raise_partial(partial) == Some(partial)

\* Lines 672-675: parse_xml has no handler, so an exception raised inside the
\* comprehension leaves it without a return value.
returned_on_raise(partial) == None

----------------------------------------------------------------------------
(* The documents the model parses *)

MaxStmt == 2

MaxBal == 2

MaxNtry == 2

MaxUstrd == 2

SeqsUpTo(S, n) == UNION {[1..k -> S] : k \in 0..n}

T_S1 == <<"S", "1">>

T_S2 == <<"S", "2">>

T_S3 == <<"S", "3">>

T_S4 == <<"S", "4">>

T_E1 == <<"E", "1">>

T_E2 == <<"E", "2">>

T_E3 == <<"E", "3">>

T_EUR == <<"E", "U", "R">>

T_Stamp == <<"2", "0", "2", "4", "-", "0", "1", "-", "3", "1", "T", "1", "8", ":", "0", "0", ":", "0", "0">>

T_StampTz == <<"2", "0", "2", "4", "-", "0", "1", "-", "3", "1", "T", "1", "8", ":", "0", "0", ":", "0", "0", "+", "0", "1", ":", "0", "0">>

T_StampBad == <<"2", "0", "2", "4", "-", "0", "1", "-", "3", "1", "T", "2", "5", ":", "0", "0">>

T_Day1 == <<"2", "0", "2", "4", "-", "0", "1", "-", "0", "1">>

T_Day15 == <<"2", "0", "2", "4", "-", "0", "1", "-", "1", "5">>

T_Day31 == <<"2", "0", "2", "4", "-", "0", "1", "-", "3", "1">>

T_Day15Pad == <<" ", "2", "0", "2", "4", "-", "0", "1", "-", "1", "5", " ">>

T_Day15Tz == <<"2", "0", "2", "4", "-", "0", "1", "-", "1", "5", "T", "0", "0", ":", "0", "0", ":", "0", "0", "+", "0", "1", ":", "0", "0">>

T_DayBad == <<"2", "0", "2", "4", "-", "0", "2", "-", "3", "0">>

T_DayShort == <<"2", "0", "2", "4", "-", "1", "-", "5">>

T_100 == <<"1", "0", "0", ".", "0", "0">>

T_50 == <<"5", "0", ".", "0", "0">>

T_150 == <<"1", "5", "0", ".", "0", "0">>

T_Neg20 == <<"-", "2", "0">>

T_AmtBad == <<"1", "x">>

T_DbitPad == <<" ", "D", "B", "I", "T", " ">>

T_Cred == <<"C", "R", "E", "D">>

T_DbitLower == <<"d", "b", "i", "t">>

T_ITBD == <<"I", "T", "B", "D">>

T_OpbdPad == <<"O", "P", "B", "D", " ">>

T_Book == <<"2", "0", "2", "4", "-", "0", "1", "-", "1", "5", "T", "1", "0", ":", "0", "0", ":", "0", "0">>

T_BookPad == <<" ", "2", "0", "2", "4", "-", "0", "1", "-", "1", "5", "T", "1", "0", ":", "0", "0", ":", "0", "0", " ">>

T_BAI == <<"B", "A", "I">>

T_BaiPad == <<" ", "B", "A", "I", " ">>

T_BaiLower == <<"b", "a", "i">>

T_SWIFT == <<"S", "W", "I", "F", "T">>

T_165 == <<"1", "6", "5">>

T_Inv == <<"I", "n", "v", " ", "1">>

T_Ref == <<"R", "e", "f", " ", "2">>

T_Blank == <<" ", " ">>

T_Bic == <<"B", "I", "C", "A">>

T_BicPad == <<" ", "B", "I", "C", "A">>

T_Bicfi == <<"B", "I", "C", "F">>

T_Iban == <<"D", "E", "8", "9">>

T_IbanPad == <<"D", "E", "8", "9", " ">>

T_Iban2 == <<"F", "R", "7", "6">>

T_Other == <<"I", "D", "7">>

T_Other2 == <<"I", "D", "8">>

T_Msg == <<"M", "1">>

\* The result of findall for one path: a child with text, a child without
\* text (<tag/>), no child.
Txt(t) == <<Leaf(Some(t))>>

NoText == <<Leaf(None)>>

Missing == <<>>

\* <Amt Ccy="...">text</Amt>
AmtOf(t, ccy) == <<Elem(Some(t), ("Ccy" :> ccy), NoMap)>>

AmtNoCcy(t) == <<Elem(Some(t), NoMap, NoMap)>>

Node(kids) == Elem(None, NoMap, kids)

BalNode(dt, amt, ind, cd) ==
    Node(("Dt/Dt" :> dt) @@ ("Amt" :> amt) @@ ("CdtDbtInd" :> ind)
         @@ ("Tp/CdOrPrtry/Cd" :> cd))

\* Well-formed balance blocks: indicator x type code, with distinct amounts.
GoodBals ==
    {BalNode(Txt(T_Day1), AmtOf(a, T_EUR), Txt(i), Txt(c)) :
        a \in {T_100}, i \in {CRDT, DBIT}, c \in {OPBD, CLBD, T_ITBD}}
    \cup {BalNode(Txt(T_Day31), AmtOf(T_50, T_EUR), Txt(T_DbitPad), Txt(CLBD)),
          BalNode(Txt(T_Day15Tz), AmtOf(T_Neg20, T_EUR), Txt(DBIT), Txt(OPBD)),
          BalNode(Txt(T_Day15Pad), AmtOf(T_150, T_EUR), Txt(CRDT), Txt(T_OpbdPad))}

\* Balance blocks that break a rule of the loop body.
BadBals ==
    {BalNode(Missing, AmtOf(T_100, T_EUR), Txt(CRDT), Txt(OPBD)),
     BalNode(Txt(T_DayBad), AmtOf(T_100, T_EUR), Txt(CRDT), Txt(OPBD)),
     BalNode(Txt(T_Day1), Missing, Txt(CRDT), Txt(OPBD)),
     BalNode(Txt(T_Day1), AmtNoCcy(T_100), Txt(CRDT), Txt(OPBD)),
     BalNode(Txt(T_Day1), AmtOf(T_AmtBad, T_EUR), Txt(CRDT), Txt(OPBD)),
     BalNode(Txt(T_Day1), AmtOf(T_100, T_EUR), Missing, Txt(OPBD)),
     BalNode(Txt(T_Day1), AmtOf(T_100, T_EUR), Txt(T_Cred), Txt(OPBD)),
     BalNode(Txt(T_Day1), AmtOf(T_100, T_EUR), Txt(T_DbitLower), Txt(CLBD)),
     BalNode(Txt(T_Day1), AmtOf(T_100, T_EUR), Txt(DBIT), NoText),
     BalNode(Txt(T_Day1), AmtOf(T_100, T_EUR), Txt(DBIT), Missing)}

BalPool == GoodBals \cup BadBals

AcctIdNode(iban, othr) == Node(("IBAN" :> iban) @@ ("Othr/Id" :> othr))

FinInstnNode(bic, bicfi, othr) ==
    Node(("BIC" :> bic) @@ ("BICFI" :> bicfi) @@ ("Othr/Id" :> othr))

\* findall results for an account-id container
AcctIdPool ==
    {Missing,
     <<AcctIdNode(Txt(T_Iban), Missing)>>,
     <<AcctIdNode(Missing, Txt(T_Other))>>,
     <<AcctIdNode(Missing, Missing)>>,
     <<AcctIdNode(Txt(T_Blank), NoText)>>}

\* findall results for a financial-institution container
FinInstnPool ==
    {Missing,
     <<FinInstnNode(Txt(T_Bic), Missing, Missing)>>,
     <<FinInstnNode(Missing, Txt(T_Bicfi), Txt(T_Other))>>,
     <<FinInstnNode(Missing, Missing, Missing)>>,
     <<FinInstnNode(Txt(T_Blank), NoText, Missing)>>}

RefsNode == Node(("MsgId" :> Txt(T_Msg)) @@ ("EndToEndId" :> NoText))

\* A well-formed credit entry; the variants below override one aspect each.
BaseNtryKids ==
    ("NtryRef" :> Txt(T_E1)) @@ ("Amt" :> AmtOf(T_150, T_EUR)) @@ ("CdtDbtInd" :> Txt(CRDT))
    @@ ("ValDt/Dt" :> Txt(T_Day15)) @@ ("BookgDt/DtTm" :> Txt(T_Book))
    @@ ("NtryDtls/TxDtls/RmtInf/Ustrd" :> Txt(T_Inv))

NtryWith(kids) == Node(kids @@ BaseNtryKids)

UstrdPool == {Leaf(Some(T_Inv)), Leaf(Some(T_Ref)), Leaf(Some(T_Blank)), Leaf(None)}

NtryPool ==
    {NtryWith(("CdtDbtInd" :> i)) :
        i \in {Txt(CRDT), Txt(DBIT), Txt(T_DbitPad), Txt(T_Cred), NoText, Missing}}
    \cup {NtryWith(("Amt" :> a) @@ ("CdtDbtInd" :> Txt(i))) :
        a \in {AmtOf(T_Neg20, T_EUR), AmtOf(T_AmtBad, T_EUR), AmtNoCcy(T_150), Missing},
        i \in {CRDT, DBIT}}
    \cup {NtryWith(("ValDt/Dt" :> d)) :
        d \in {Txt(T_Day15Pad), Txt(T_Day15Tz), Txt(T_DayBad), Txt(T_DayShort),
               Txt(T_Blank), NoText, Missing}}
    \cup {NtryWith(("BookgDt/DtTm" :> b)) :
        b \in {Txt(T_BookPad), Txt(T_Blank), NoText, Missing}}
    \cup {NtryWith(("NtryDtls/TxDtls/RmtInf/Ustrd" :> u)) : u \in SeqsUpTo(UstrdPool, MaxUstrd)}
    \cup {NtryWith(("BkTxCd/Prtry/Issr" :> i) @@ ("BkTxCd/Prtry/Cd" :> c)) :
        i \in {Txt(T_BAI), Txt(T_BaiPad), Txt(T_BaiLower), Txt(T_SWIFT), NoText, Missing},
        c \in {Txt(T_165), NoText, Missing}}
    \cup {NtryWith(("NtryDtls/TxDtls/RltdPties/DbtrAcct/Id" :> d)
                   @@ ("NtryDtls/TxDtls/RltdPties/CdtrAcct/Id" :> c)) :
        d \in AcctIdPool,
        c \in AcctIdPool \cup {<<AcctIdNode(Txt(T_Iban2), Txt(T_Other2))>>}}
    \cup {NtryWith(("NtryDtls/TxDtls/RltdAgts/DbtrAgt/FinInstnId" :> d)
                   @@ ("NtryDtls/TxDtls/RltdAgts/CdtrAgt/FinInstnId" :> c)) :
        d \in FinInstnPool,
        c \in FinInstnPool \cup {<<FinInstnNode(Txt(T_BicPad), Txt(T_Bicfi), Txt(T_Other2))>>}}
    \cup {NtryWith(("NtryRef" :> r) @@ ("NtryDtls/TxDtls/Refs" :> f)
                   @@ ("NtryDtls/TxDtls/AddtlTxInf" :> a)) :
        r \in {Txt(T_E2), NoText, Missing}, f \in {Missing, <<RefsNode>>},
        a \in {Missing, Txt(T_Inv)}}

\* Entries told apart by their reference, for lists of several entries.
SmallNtryPool ==
    {NtryWith(("NtryRef" :> Txt(T_E1))),
     NtryWith(("NtryRef" :> Txt(T_E2)) @@ ("CdtDbtInd" :> Txt(DBIT))),
     NtryWith(("NtryRef" :> Txt(T_E3)) @@ ("ValDt/Dt" :> Missing))}

BaseStmtKids ==
    ("Id" :> Txt(T_S1)) @@ ("CreDtTm" :> Txt(T_Stamp)) @@ ("FrToDt/FrDtTm" :> Txt(T_Stamp))
    @@ ("FrToDt/ToDtTm" :> Txt(T_StampTz))
    @@ ("Acct/Id" :> <<AcctIdNode(Txt(T_Iban), Missing)>>)
    @@ ("Bal" :> <<>>) @@ ("Ntry" :> <<>>)

StmtWith(kids) == Node(kids @@ BaseStmtKids)

OpeningBal == BalNode(Txt(T_Day1), AmtOf(T_100, T_EUR), Txt(CRDT), Txt(OPBD))

ClosingBal == BalNode(Txt(T_Day31), AmtOf(T_50, T_EUR), Txt(DBIT), Txt(CLBD))

BadIndBal == BalNode(Txt(T_Day1), AmtOf(T_100, T_EUR), Txt(T_Cred), Txt(OPBD))

\* Statements that vary one part: the balance blocks, the entries, the head.
StmtPool ==
    {StmtWith(("Bal" :> b)) : b \in SeqsUpTo(BalPool, MaxBal)}
    \cup {StmtWith(("Ntry" :> <<n>>)) : n \in NtryPool}
    \cup {StmtWith(("Ntry" :> n)) : n \in SeqsUpTo(SmallNtryPool, MaxNtry)}
    \cup {StmtWith(("Id" :> i) @@ ("CreDtTm" :> c) @@ ("Bal" :> <<OpeningBal>>)) :
            i \in {Txt(T_S2), NoText, Missing},
            c \in {Txt(T_Day1), Txt(T_StampBad), Missing}}
    \cup {StmtWith(("FrToDt/FrDtTm" :> f) @@ ("FrToDt/ToDtTm" :> t)) :
            f \in {Txt(T_Stamp), Txt(T_Day15Tz), Missing},
            t \in {Txt(T_Stamp), Txt(T_DayShort), NoText}}
    \cup {StmtWith(("Acct/Id" :> a) @@ ("Bal" :> b)) :
            a \in AcctIdPool, b \in {<<>>, <<OpeningBal>>, <<BadIndBal>>}}
    \cup {StmtWith(("Acct/Id" :> a) @@ ("Bal" :> <<ClosingBal>>) @@ ("Ntry" :> <<n>>)) :
            a \in AcctIdPool, n \in SmallNtryPool}

\* Statements told apart by their id, for documents of several statements.
SmallStmtPool ==
    {StmtWith(("Id" :> Txt(T_S1)) @@ ("Bal" :> <<OpeningBal, ClosingBal>>)
              @@ ("Ntry" :> <<NtryWith(("NtryRef" :> Txt(T_E1)))>>)),
     StmtWith(("Id" :> Txt(T_S2))),
     StmtWith(("Id" :> Txt(T_S3))
              @@ ("Ntry" :> <<NtryWith(("NtryRef" :> Txt(T_E1))),
                              NtryWith(("NtryRef" :> Txt(T_E3)) @@ ("ValDt/Dt" :> Missing))>>)),
     StmtWith(("Id" :> Txt(T_S4))
              @@ ("Bal" :> <<BalNode(Txt(T_Day1), AmtOf(T_100, T_EUR), Txt(DBIT), Txt(T_ITBD))>>)
              @@ ("Ntry" :> <<NtryWith(("NtryRef" :> Txt(T_E2)) @@ ("CdtDbtInd" :> Txt(DBIT))),
                              NtryWith(("NtryRef" :> Txt(T_E1)))>>))}

Docs == {<<s>> : s \in StmtPool} \cup SeqsUpTo(SmallStmtPool, MaxStmt)

\* Elements handed to the identifier extractors.
IdTextPool == {Missing, NoText, Txt(T_Blank)}

IdRoots ==
    {None}
    \cup {Some(Node(("BIC" :> b) @@ ("BICFI" :> f) @@ ("IBAN" :> i) @@ ("Othr/Id" :> o))) :
            b \in IdTextPool \cup {Txt(T_Bic), Txt(T_BicPad)},
            f \in IdTextPool \cup {Txt(T_Bicfi)},
            i \in IdTextPool \cup {Txt(T_Iban), Txt(T_IbanPad)},
            o \in IdTextPool \cup {Txt(T_Other)}}

----------------------------------------------------------------------------
(* parse_xml as a state machine *)

Bals(stmt) == findall(stmt, "Bal")

Ntrys(stmt) == findall(stmt, "Ntry")

Init ==
    /\ doc \in Docs
    /\ pc = "start"
    /\ si = 0
    /\ statements = <<>>
    /\ head = None
    /\ bi = 0
    /\ balance = None
    /\ opening_balance = None
    /\ closing_balance = None
    /\ transactions = <<>>
    /\ warnings = 0
    /\ notices = 0
    /\ error = NoErr
    /\ result = None
    /\ idroot = None
    /\ idpc = "idle"
    /\ bank_id = None
    /\ account_id = None
    /\ id_str = None
    /\ date_in = <<>>
    /\ date_pc = "idle"
    /\ date_out = None
    /\ date_warned = 0
    /\ date_err = NoErr

\* Lines 664-672: the tree is read and the comprehension starts at the first Stmt.
ParseXml ==
    /\ pc = "start"
    /\ pc' = "next"
    /\ si' = 1
    /\ statements' = <<>>
    /\ UNCHANGED <<doc, head, bi, balance, opening_balance, closing_balance,
                   transactions, warnings, notices, error, result>>
    /\ UNCHANGED idVars
    /\ UNCHANGED dateVars

\* Lines 480-489: parse_statement is entered for the next Stmt node.
StatementHead ==
    /\ pc = "next"
    /\ si <= Len(doc)
    /\ LET h == parse_statement_head(doc[si])
       IN  IF IsOk(h)
           THEN /\ head' = Some(h.val)
                /\ pc' = "bal"
                /\ UNCHANGED <<error, result>>
           ELSE /\ head' = None
                /\ pc' = "error"
                /\ error' = h.err
                /\ result' = returned_on_raise(statements)
    /\ bi' = 0
    /\ balance' = None
    /\ opening_balance' = None
    /\ closing_balance' = None
    /\ transactions' = <<>>
    /\ UNCHANGED <<doc, si, statements, warnings, notices>>
    /\ UNCHANGED idVars
    /\ UNCHANGED dateVars

\* Lines 491-506: one pass of the loop over the Bal blocks.
BalanceStep ==
    /\ pc = "bal"
    /\ bi < Len(Bals(doc[si]))
    /\ LET r == parse_balance(Bals(doc[si])[bi + 1])
       IN  /\ warnings' = warnings + r.warned
           /\ IF IsOk(r)
              THEN LET slots == classify_balance(r.val.tmp2, r.val.balance,
                                                 opening_balance, closing_balance)
                   IN  /\ balance' = Some(r.val.balance)
                       /\ opening_balance' = slots[1]
                       /\ closing_balance' = slots[2]
                       /\ bi' = bi + 1
                       /\ UNCHANGED <<pc, error, result>>
              ELSE /\ pc' = "error"
                   /\ error' = r.err
                   /\ result' = returned_on_raise(statements)
                   /\ UNCHANGED <<balance, opening_balance, closing_balance, bi>>
    /\ UNCHANGED <<doc, si, statements, head, transactions, notices>>
    /\ UNCHANGED idVars
    /\ UNCHANGED dateVars

\* Line 508: the loop is over and parse_transactions is called.
ParseTransactions ==
    /\ pc = "bal"
    /\ bi = Len(Bals(doc[si]))
    /\ pc' = "ntry"
    /\ transactions' = <<>>
    /\ UNCHANGED <<doc, si, statements, head, bi, balance, opening_balance,
                   closing_balance, warnings, notices, error, result>>
    /\ UNCHANGED idVars
    /\ UNCHANGED dateVars

\* Line 535: parse_transaction on the next Ntry node of the comprehension.
TransactionStep ==
    /\ pc = "ntry"
    /\ Len(transactions) < Len(Ntrys(doc[si]))
    /\ LET r == parse_transaction(Ntrys(doc[si])[Len(transactions) + 1])
       IN  /\ warnings' = warnings + r.warned
           /\ IF IsOk(r)
              THEN /\ transactions' = collect_transaction(transactions, r.val)
                   /\ UNCHANGED <<pc, error, result>>
              ELSE /\ pc' = "error"
                   /\ error' = r.err
                   /\ result' = returned_on_raise(statements)
                   /\ UNCHANGED transactions
    /\ UNCHANGED <<doc, si, statements, head, bi, balance, opening_balance,
                   closing_balance, notices>>
    /\ UNCHANGED idVars
    /\ UNCHANGED dateVars

\* Lines 509-521 and 672-674: the statement is built and joins the list.
StatementReturn ==
    /\ pc = "ntry"
    /\ Len(transactions) = Len(Ntrys(doc[si]))
    /\ notices' = IF Len(transactions) = 0 THEN notices + 1 ELSE notices
    /\ statements' = Append(statements,
                            [statement_id    |-> Val(head).statement_id,
                             created_time    |-> Val(head).created_time,
                             from_time       |-> Val(head).from_time,
                             to_time         |-> Val(head).to_time,
                             account_id      |-> Val(head).account_id,
                             opening_balance |-> opening_balance,
                             closing_balance |-> closing_balance,
                             transactions    |-> transactions])
    /\ si' = si + 1
    /\ pc' = "next"
    /\ head' = None
    /\ bi' = 0
    /\ balance' = None
    /\ opening_balance' = None
    /\ closing_balance' = None
    /\ transactions' = <<>>
    /\ UNCHANGED <<doc, warnings, error, result>>
    /\ UNCHANGED idVars
    /\ UNCHANGED dateVars

\* Line 675
Return ==
    /\ pc = "next"
    /\ si > Len(doc)
    /\ result' = Some(statements)
    /\ pc' = "done"
    /\ UNCHANGED <<doc, si, statements, head, bi, balance, opening_balance,
                   closing_balance, transactions, warnings, notices, error>>
    /\ UNCHANGED idVars
    /\ UNCHANGED dateVars

Next ==
    \/ ParseXml
    \/ StatementHead
    \/ BalanceStep
    \/ ParseTransactions
    \/ TransactionStep
    \/ StatementReturn
    \/ Return

Spec == Init /\ [][Next]_vars

----------------------------------------------------------------------------
(* The identifier extractors on their own *)

InitId ==
    /\ doc = <<>>
    /\ pc = "idle"
    /\ si = 0
    /\ statements = <<>>
    /\ head = None
    /\ bi = 0
    /\ balance = None
    /\ opening_balance = None
    /\ closing_balance = None
    /\ transactions = <<>>
    /\ warnings = 0
    /\ notices = 0
    /\ error = NoErr
    /\ result = None
    /\ idroot \in IdRoots
    /\ idpc = "start"
    /\ bank_id = None
    /\ account_id = None
    /\ id_str = None
    /\ date_in = <<>>
    /\ date_pc = "idle"
    /\ date_out = None
    /\ date_warned = 0
    /\ date_err = NoErr

\* BankId.from_xml(idroot)
BankFromXml ==
    /\ idpc = "start"
    /\ bank_id' = BankId_from_xml(idroot)
    /\ idpc' = "bank"
    /\ UNCHANGED <<idroot, account_id, id_str>>
    /\ UNCHANGED parseVars
    /\ UNCHANGED dateVars

\* str(bank_id)
BankStr ==
    /\ idpc = "bank"
    /\ ~IsNone(bank_id)
    /\ id_str' = Some(BankId_str(Val(bank_id)))
    /\ idpc' = "bank_str"
    /\ UNCHANGED <<idroot, bank_id, account_id>>
    /\ UNCHANGED parseVars
    /\ UNCHANGED dateVars

\* AccountId.from_xml(idroot)
AccountFromXml ==
    /\ idpc = "start"
    /\ account_id' = AccountId_from_xml(idroot)
    /\ idpc' = "account"
    /\ UNCHANGED <<idroot, bank_id, id_str>>
    /\ UNCHANGED parseVars
    /\ UNCHANGED dateVars

\* str(account_id)
AccountStr ==
    /\ idpc = "account"
    /\ ~IsNone(account_id)
    /\ id_str' = Some(AccountId_str(Val(account_id)))
    /\ idpc' = "account_str"
    /\ UNCHANGED <<idroot, bank_id, account_id>>
    /\ UNCHANGED parseVars
    /\ UNCHANGED dateVars

NextId ==
    \/ BankFromXml
    \/ BankStr
    \/ AccountFromXml
    \/ AccountStr

SpecId == InitId /\ [][NextId]_vars

----------------------------------------------------------------------------
(* parse_date_isoformat on its own *)

\* Strings handed to parse_date_isoformat: year-month-day with a tail, and
\* strings shorter than a date.
DateStrings ==
    {y \o <<"-">> \o m \o <<"-">> \o d \o t :
        y \in {<<"2", "0", "2", "4">>, <<"2", "0", "2", "3">>, <<"1", "9", "0", "0">>,
               <<"2", "0", "x", "4">>},
        m \in {<<"0", "1">>, <<"0", "2">>, <<"1", "2">>, <<"1", "3">>, <<"0", "0">>},
        d \in {<<"0", "1">>, <<"1", "5">>, <<"2", "9">>, <<"3", "0">>, <<"3", "1">>,
               <<"3", "2">>},
        t \in {<<>>, <<"T", "0", "0", ":", "0", "0", ":", "0", "0", "+", "0", "1", ":", "0", "0">>,
               <<"Z">>, <<" ">>}}
    \cup {<<>>, T_DayShort, T_Blank, <<"2", "0", "2", "4">>,
          <<"2", "0", "2", "4", "/", "0", "1", "/", "1", "5">>}

InitDate ==
    /\ doc = <<>>
    /\ pc = "idle"
    /\ si = 0
    /\ statements = <<>>
    /\ head = None
    /\ bi = 0
    /\ balance = None
    /\ opening_balance = None
    /\ closing_balance = None
    /\ transactions = <<>>
    /\ warnings = 0
    /\ notices = 0
    /\ error = NoErr
    /\ result = None
    /\ idroot = None
    /\ idpc = "idle"
    /\ bank_id = None
    /\ account_id = None
    /\ id_str = None
    /\ date_in \in DateStrings
    /\ date_pc = "start"
    /\ date_out = None
    /\ date_warned = 0
    /\ date_err = NoErr

\* Lines 627-631: parse_date_isoformat(date_in) returns a date or raises.
ParseDate ==
    /\ date_pc = "start"
    /\ LET r == parse_date_isoformat(date_in)
       IN  /\ date_warned' = date_warned + r.warned
           /\ date_err' = r.err
           /\ date_out' = IF IsOk(r) THEN Some(r.val) ELSE None
           /\ date_pc' = IF IsOk(r) THEN "returned" ELSE "raised"
    /\ UNCHANGED date_in
    /\ UNCHANGED parseVars
    /\ UNCHANGED idVars

NextDate == ParseDate

SpecDate == InitDate /\ [][NextDate]_vars

----------------------------------------------------------------------------
(* Reading the input tree directly, for the statements below *)

\* The element at path has text.
Present(e, path) == Len(findall(e, path)) > 0 /\ ~IsNone(findall(e, path)[1].text)

\* The trimmed text of the element at path (where Present).
Text(e, path) == Strip(Val(findall(e, path)[1].text))

AmtBroken(e) ==
    \/ Len(findall(e, "Amt")) = 0
    \/ "Ccy" \notin DOMAIN findall(e, "Amt")[1].attrib
    \/ ~Present(e, "Amt")
    \/ ~IsOk(Decimal(Text(e, "Amt")))

\* The amount written in the XML (where ~AmtBroken).
XmlAmount(e) == Decimal(Text(e, "Amt")).val

IndBroken(e) == ~Present(e, "CdtDbtInd") \/ Text(e, "CdtDbtInd") \notin {CRDT, DBIT}

DateBroken(e, path) ==
    ~Present(e, path) \/ ~IsOk(date_fromisoformat(Prefix(Text(e, path), 10)))

StampBroken(e, path) == ~Present(e, path) \/ ~IsOk(datetime_fromisoformat(Text(e, path)))

AcctBroken(s) ==
    \/ Len(findall(s, "Acct/Id")) = 0
    \/ /\ ~(Present(findall(s, "Acct/Id")[1], "IBAN")
            /\ Text(findall(s, "Acct/Id")[1], "IBAN") # <<>>)
       /\ ~(Present(findall(s, "Acct/Id")[1], "Othr/Id")
            /\ Text(findall(s, "Acct/Id")[1], "Othr/Id") # <<>>)

\* A balance block breaks a rule of section 4.4.
BalViolates(b) ==
    DateBroken(b, "Dt/Dt") \/ AmtBroken(b) \/ IndBroken(b) \/ ~Present(b, "Tp/CdOrPrtry/Cd")

\* An entry breaks a mandatory-field rule of section 4.5.
NtryViolates(n) ==
    ~Present(n, "NtryRef") \/ AmtBroken(n) \/ IndBroken(n) \/ DateBroken(n, "ValDt/Dt")

\* A statement, one of its balance blocks or one of its entries breaks a rule.
StmtViolates(s) ==
    \/ ~Present(s, "Id")
    \/ StampBroken(s, "CreDtTm")
    \/ StampBroken(s, "FrToDt/FrDtTm")
    \/ StampBroken(s, "FrToDt/ToDtTm")
    \/ AcctBroken(s)
    \/ \E k \in 1..Len(Bals(s)) : BalViolates(Bals(s)[k])
    \/ \E k \in 1..Len(Ntrys(s)) : NtryViolates(Ntrys(s)[k])

\* parse_statement is running on doc[si].
InStatement == pc \in {"bal", "ntry", "error"} /\ si \in 1..Len(doc) /\ ~IsNone(head)

\* The parse ended with an exception raised by parse_transaction.
FailedInEntry ==
    /\ pc = "error"
    /\ InStatement
    /\ bi = Len(Bals(doc[si]))
    /\ Len(transactions) < Len(Ntrys(doc[si]))

\* The entry parse_transaction failed on (where FailedInEntry).
FailedEntry == Ntrys(doc[si])[Len(transactions) + 1]

\* The parse ended with an exception raised in the loop over the Bal blocks.
FailedInBalance == pc = "error" /\ InStatement /\ bi < Len(Bals(doc[si]))

----------------------------------------------------------------------------
(* C1 *)

\* C1: when parse_xml returns, the list holds one statement per Stmt node in
\* document order (told by the statement ids), and each statement's
\* transaction list holds one transaction per Ntry node of that Stmt in
\* document order (told by the entry references); a document without Stmt
\* nodes ends with the empty list and never with an error.
C1_OnePerNodeInOrder ==
    /\ pc = "done" =>
        /\ ~IsNone(result)
        /\ error = NoErr
        /\ Len(Val(result)) = Len(doc)
        /\ \A i \in 1..Len(doc) :
            /\ Val(result)[i].statement_id = Text(doc[i], "Id")
            /\ Len(Val(result)[i].transactions) = Len(Ntrys(doc[i]))
            /\ \A j \in 1..Len(Ntrys(doc[i])) :
                Val(result)[i].transactions[j].entry_ref = Text(Ntrys(doc[i])[j], "NtryRef")
    /\ Len(doc) = 0 /\ pc \notin {"idle"} =>
        /\ pc # "error"
        /\ pc = "done" => result = Some(<<>>)
        /\ pc # "done" => ENABLED Next

C1_Witness ==
    /\ pc = "done"
    /\ Len(doc) = 2
    /\ Val(result)[1].statement_id # Val(result)[2].statement_id
    /\ \E i \in 1..2 :
        /\ Len(Val(result)[i].transactions) = 2
        /\ Val(result)[i].transactions[1].entry_ref = T_E2
        /\ Val(result)[i].transactions[2].entry_ref = T_E1

----------------------------------------------------------------------------
(* C2 *)

\* C2: parsing is all-or-nothing.  A run that ends in an error returns
\* nothing, also when statements before the faulty one were already parsed;
\* a run over a document in which any statement, balance block or entry
\* breaks a rule never returns; whatever is returned has every statement and
\* every transaction of the document.
C2_AllOrNothing ==
    /\ pc = "error" => IsNone(result) /\ error # NoErr
    /\ (\E i \in 1..Len(doc) : StmtViolates(doc[i])) => pc # "done" /\ IsNone(result)
    /\ ~IsNone(result) =>
        /\ pc = "done"
        /\ Len(Val(result)) = Len(doc)
        /\ \A i \in 1..Len(doc) :
            Len(Val(result)[i].transactions) = Len(Ntrys(doc[i]))

C2_Witness ==
    /\ pc = "error"
    /\ Len(statements) = 1
    /\ Len(statements[1].transactions) = 1
    /\ ~StmtViolates(doc[1])
    /\ StmtViolates(doc[2])
    /\ IsNone(result)

----------------------------------------------------------------------------
(* C3 *)

\* C3: when an entry whose earlier fields are in order has no ValDt/Dt text,
\* the parse ends with the missing-field error of get_text, and that error
\* carries the path of the missing field.
C3_MissingFieldCarriesPath ==
    (/\ FailedInEntry
     /\ Present(FailedEntry, "NtryRef")
     /\ ~AmtBroken(FailedEntry)
     /\ ~IndBroken(FailedEntry)
     /\ IsNone(get_text_or_none(Some(FailedEntry), Some("ValDt/Dt"), TRUE)))
    => /\ error.type = "ValueError"
       /\ error.msg = "Missing mandatory element"
       /\ error.arg = Some("ValDt/Dt")

----------------------------------------------------------------------------
(* C4 *)

\* Decimal negation: the sign flips, coefficient and exponent stay.
Negated(d) == [d EXCEPT !.sign = 1 - @]

\* C4: the Balance built from a balance block holds the negated XML amount
\* when the block's indicator is DBIT and the XML amount itself when it is
\* CRDT; no Balance is built from a block with another indicator: the parse
\* ends there with the ValueError of the enum lookup.
C4_BalanceSign ==
    /\ (InStatement /\ bi >= 1) =>
        LET b == Bals(doc[si])[bi]
        IN  /\ ~IsNone(balance)
            /\ Text(b, "CdtDbtInd") \in {CRDT, DBIT}
            /\ Text(b, "CdtDbtInd") = DBIT => Val(balance).amount = Negated(XmlAmount(b))
            /\ Text(b, "CdtDbtInd") = CRDT => Val(balance).amount = XmlAmount(b)
    /\ (/\ FailedInBalance
        /\ ~DateBroken(Bals(doc[si])[bi + 1], "Dt/Dt")
        /\ ~AmtBroken(Bals(doc[si])[bi + 1])
        /\ Present(Bals(doc[si])[bi + 1], "CdtDbtInd")
        /\ IndBroken(Bals(doc[si])[bi + 1]))
       => /\ error.type = "ValueError"
          /\ error.msg = "is not a valid CreditOrDebit"
          /\ error.arg = Some(Text(Bals(doc[si])[bi + 1], "CdtDbtInd"))

C4_Witness ==
    /\ pc = "bal"
    /\ bi = 2
    /\ Text(Bals(doc[si])[1], "CdtDbtInd") = CRDT
    /\ Text(Bals(doc[si])[2], "CdtDbtInd") = DBIT
    /\ XmlAmount(Bals(doc[si])[2]) = [sign |-> 0, coef |-> 5000, exp |-> -2]
    /\ Val(balance).amount = [sign |-> 1, coef |-> 5000, exp |-> -2]

----------------------------------------------------------------------------
(* C5 *)

\* The transaction t built from the entry n has the operation of n's
\* indicator and n's amount as written.
TxOperationAndAmount(t, n) ==
    /\ t.operation = "debit" <=> Text(n, "CdtDbtInd") = DBIT
    /\ t.operation = "credit" <=> Text(n, "CdtDbtInd") = CRDT
    /\ t.operation \in {"debit", "credit"}
    /\ t.amount = XmlAmount(n)

\* C5: every transaction, in the list being built and in the statements
\* built so far, is "debit" exactly for DBIT and "credit" exactly for CRDT,
\* and stores the XML amount unchanged for both indicators.
C5_OperationNotSign ==
    /\ (pc \in {"ntry", "error"} /\ si \in 1..Len(doc)) =>
        \A j \in 1..Len(transactions) :
            TxOperationAndAmount(transactions[j], Ntrys(doc[si])[j])
    /\ \A i \in 1..Len(statements) :
        \A j \in 1..Len(statements[i].transactions) :
            TxOperationAndAmount(statements[i].transactions[j], Ntrys(doc[i])[j])

C5_Witness ==
    /\ pc = "ntry"
    /\ Len(transactions) = 1
    /\ Text(Ntrys(doc[si])[1], "CdtDbtInd") = DBIT
    /\ transactions[1].operation = "debit"
    /\ XmlAmount(Ntrys(doc[si])[1]) = [sign |-> 1, coef |-> 20, exp |-> 0]
    /\ transactions[1].amount = [sign |-> 1, coef |-> 20, exp |-> 0]

----------------------------------------------------------------------------
(* C6 *)

\* The type code of a balance block is a text other than OPBD and CLBD.
OtherType(b) ==
    Present(b, "Tp/CdOrPrtry/Cd") /\ Text(b, "Tp/CdOrPrtry/Cd") \notin {OPBD, CLBD}

\* One pass of the loop over the Bal blocks, on the block b it reads.
C6_Step ==
    (pc = "bal" /\ bi < Len(Bals(doc[si]))) =>
        LET b == Bals(doc[si])[bi + 1]
        IN  /\ (pc' = "bal" /\ Text(b, "Tp/CdOrPrtry/Cd") = OPBD) =>
                opening_balance' = balance' /\ closing_balance' = closing_balance
            /\ (pc' = "bal" /\ Text(b, "Tp/CdOrPrtry/Cd") = CLBD) =>
                closing_balance' = balance' /\ opening_balance' = opening_balance
            /\ (~BalViolates(b) /\ OtherType(b)) =>
                /\ pc' = "bal"
                /\ bi' = bi + 1
                /\ opening_balance' = opening_balance
                /\ closing_balance' = closing_balance

\* Statements built from balance blocks of other types only have no balance.
C6_State ==
    \A i \in 1..Len(statements) :
        (\A k \in 1..Len(Bals(doc[i])) : OtherType(Bals(doc[i])[k])) =>
            /\ IsNone(statements[i].opening_balance)
            /\ IsNone(statements[i].closing_balance)

\* C6: a block of type OPBD sets the opening balance and leaves the closing
\* one, a block of type CLBD sets the closing balance and leaves the opening
\* one, and a well-formed block with any other type code is passed over: no
\* error, both balances as before; so a statement whose blocks are all of
\* other types is built with both balances absent.
C6_BalanceClassification == [][C6_Step]_vars /\ []C6_State

C6_Witness ==
    /\ pc = "done"
    /\ Len(doc) = 1
    /\ Len(Bals(doc[1])) = 2
    /\ \A k \in 1..2 : Text(Bals(doc[1])[k], "Tp/CdOrPrtry/Cd") = T_ITBD
    /\ IsNone(Val(result)[1].opening_balance)
    /\ IsNone(Val(result)[1].closing_balance)

----------------------------------------------------------------------------
(* C7 *)

DbtrAcct == "NtryDtls/TxDtls/RltdPties/DbtrAcct/Id"

CdtrAcct == "NtryDtls/TxDtls/RltdPties/CdtrAcct/Id"

DbtrAgt == "NtryDtls/TxDtls/RltdAgts/DbtrAgt/FinInstnId"

CdtrAgt == "NtryDtls/TxDtls/RltdAgts/CdtrAgt/FinInstnId"

\* The related identifiers of the transaction t built from the entry n.
RelatedByStructure(t, n) ==
    /\ Len(findall(n, DbtrAcct)) > 0 =>
        t.related_account_id = AccountId_from_xml(Some(findall(n, DbtrAcct)[1]))
    /\ (Len(findall(n, DbtrAcct)) = 0 /\ Len(findall(n, CdtrAcct)) > 0) =>
        t.related_account_id = AccountId_from_xml(Some(findall(n, CdtrAcct)[1]))
    /\ (Len(findall(n, DbtrAcct)) = 0 /\ Len(findall(n, CdtrAcct)) = 0) =>
        IsNone(t.related_account_id)
    /\ Len(findall(n, DbtrAgt)) > 0 =>
        t.related_account_bank_id = BankId_from_xml(Some(findall(n, DbtrAgt)[1]))
    /\ (Len(findall(n, DbtrAgt)) = 0 /\ Len(findall(n, CdtrAgt)) > 0) =>
        t.related_account_bank_id = BankId_from_xml(Some(findall(n, CdtrAgt)[1]))
    /\ (Len(findall(n, DbtrAgt)) = 0 /\ Len(findall(n, CdtrAgt)) = 0) =>
        IsNone(t.related_account_bank_id)

\* C7: the related account identifier of every transaction is the extractor's
\* result on the debtor's account-id node when that node exists (also when
\* that result is absent), its result on the creditor's node only when the
\* debtor's node does not exist, and absent when neither exists; the related
\* bank identifier likewise over the two financial-institution nodes.
C7_RelatedPartyFallback ==
    /\ (pc \in {"ntry", "error"} /\ si \in 1..Len(doc)) =>
        \A j \in 1..Len(transactions) :
            RelatedByStructure(transactions[j], Ntrys(doc[si])[j])
    /\ \A i \in 1..Len(statements) :
        \A j \in 1..Len(statements[i].transactions) :
            RelatedByStructure(statements[i].transactions[j], Ntrys(doc[i])[j])

C7_Witness ==
    /\ pc = "ntry"
    /\ Len(transactions) = 1
    /\ Len(findall(Ntrys(doc[si])[1], DbtrAcct)) > 0
    /\ ~Present(findall(Ntrys(doc[si])[1], DbtrAcct)[1], "IBAN")
    /\ ~Present(findall(Ntrys(doc[si])[1], DbtrAcct)[1], "Othr/Id")
    /\ Len(findall(Ntrys(doc[si])[1], CdtrAcct)) > 0
    /\ Present(findall(Ntrys(doc[si])[1], CdtrAcct)[1], "IBAN")
    /\ Text(findall(Ntrys(doc[si])[1], CdtrAcct)[1], "IBAN") = T_Iban
    /\ IsNone(transactions[1].related_account_id)

----------------------------------------------------------------------------
(* C8 *)

\* Every Ustrd node of the entry has text.
UstrdAllText(n) ==
    \A k \in 1..Len(findall(n, "NtryDtls/TxDtls/RmtInf/Ustrd")) :
        ~IsNone(findall(n, "NtryDtls/TxDtls/RmtInf/Ustrd")[k].text)

\* C8: an entry that is otherwise in order and has no BookgDt/DtTm text does
\* not make parse_transaction fail.
C8_BookingOptional ==
    ~(/\ FailedInEntry
      /\ ~NtryViolates(FailedEntry)
      /\ UstrdAllText(FailedEntry)
      /\ ~Present(FailedEntry, "BookgDt/DtTm"))

----------------------------------------------------------------------------
(* C9 *)

\* C9: an entry that is otherwise in order does not make parse_transaction
\* fail, whatever its Ustrd nodes are, with or without text.
C9_RemoteInfoNeverFails ==
    ~(/\ FailedInEntry
      /\ ~NtryViolates(FailedEntry)
      /\ Present(FailedEntry, "BookgDt/DtTm"))

----------------------------------------------------------------------------
(* C10 *)

\* The element at path under the Optional root has text that is not empty
\* once trimmed.
HasValue(root, path) ==
    ~IsNone(root) /\ Present(Val(root), path) /\ Text(Val(root), path) # <<>>

\* C10: from_xml returns an identifier exactly when one of the fields it
\* reads has a value, so never one with both fields absent; BIC is taken
\* before BICFI; the string form is the BIC (IBAN) when there is one and the
\* generic id otherwise, so for a subtree holding only a BIC (IBAN) it is
\* that value.
C10_Identifiers ==
    /\ idpc \in {"bank", "bank_str"} =>
        /\ ~IsNone(bank_id) <=>
            HasValue(idroot, "BIC") \/ HasValue(idroot, "BICFI") \/ HasValue(idroot, "Othr/Id")
        /\ ~IsNone(bank_id) =>
            /\ ~IsNone(Val(bank_id).bic) \/ ~IsNone(Val(bank_id).id)
            /\ HasValue(idroot, "BIC") =>
                Val(bank_id).bic = Some(Text(Val(idroot), "BIC"))
            /\ (~HasValue(idroot, "BIC") /\ HasValue(idroot, "BICFI")) =>
                Val(bank_id).bic = Some(Text(Val(idroot), "BICFI"))
    /\ idpc = "bank_str" =>
        /\ Truthy(Val(bank_id).bic) => id_str = Val(bank_id).bic
        /\ ~Truthy(Val(bank_id).bic) => id_str = Val(bank_id).id
        /\ (/\ HasValue(idroot, "BIC")
            /\ ~HasValue(idroot, "BICFI")
            /\ ~HasValue(idroot, "Othr/Id")) => id_str = Some(Text(Val(idroot), "BIC"))
    /\ idpc \in {"account", "account_str"} =>
        /\ ~IsNone(account_id) <=> HasValue(idroot, "IBAN") \/ HasValue(idroot, "Othr/Id")
        /\ ~IsNone(account_id) =>
            ~IsNone(Val(account_id).iban) \/ ~IsNone(Val(account_id).id)
    /\ idpc = "account_str" =>
        /\ Truthy(Val(account_id).iban) => id_str = Val(account_id).iban
        /\ ~Truthy(Val(account_id).iban) => id_str = Val(account_id).id
        /\ (HasValue(idroot, "IBAN") /\ ~HasValue(idroot, "Othr/Id")) =>
            id_str = Some(Text(Val(idroot), "IBAN"))

C10_Witness ==
    /\ idpc = "bank_str"
    /\ HasValue(idroot, "BIC")
    /\ Val(Val(idroot).kids["BIC"][1].text) = T_BicPad
    /\ HasValue(idroot, "BICFI")
    /\ HasValue(idroot, "Othr/Id")
    /\ Val(bank_id).bic = Some(T_Bic)
    /\ Val(bank_id).id = Some(T_Other)
    /\ id_str = Some(T_Bic)

----------------------------------------------------------------------------
(* C11 *)

\* The BAI code of the transaction t built from the entry n.
BaiCodeByIssuer(t, n) ==
    IF Present(n, "BkTxCd/Prtry/Issr") /\ Text(n, "BkTxCd/Prtry/Issr") = T_BAI
    THEN IF Present(n, "BkTxCd/Prtry/Cd")
         THEN t.bai_code = Some(Text(n, "BkTxCd/Prtry/Cd"))
         ELSE IsNone(t.bai_code)
    ELSE IsNone(t.bai_code)

\* C11: the BAI code of every transaction is the (optional, trimmed) text of
\* BkTxCd/Prtry/Cd when the trimmed text of BkTxCd/Prtry/Issr is "BAI", and
\* is absent for any other issuer and for no issuer, also when the XML holds
\* a code.
C11_BaiCodeOnlyForBai ==
    /\ (pc \in {"ntry", "error"} /\ si \in 1..Len(doc)) =>
        \A j \in 1..Len(transactions) :
            BaiCodeByIssuer(transactions[j], Ntrys(doc[si])[j])
    /\ \A i \in 1..Len(statements) :
        \A j \in 1..Len(statements[i].transactions) :
            BaiCodeByIssuer(statements[i].transactions[j], Ntrys(doc[i])[j])

C11_Witness ==
    /\ pc = "done"
    /\ Len(doc) = 1
    /\ Len(Ntrys(doc[1])) = 1
    /\ Present(Ntrys(doc[1])[1], "BkTxCd/Prtry/Issr")
    /\ Text(Ntrys(doc[1])[1], "BkTxCd/Prtry/Issr") = T_SWIFT
    /\ Present(Ntrys(doc[1])[1], "BkTxCd/Prtry/Cd")
    /\ Text(Ntrys(doc[1])[1], "BkTxCd/Prtry/Cd") = T_165
    /\ IsNone(Val(result)[1].transactions[1].bai_code)

----------------------------------------------------------------------------
(* C12 *)

\* The parse ended with an exception raised by lines 480-489.
FailedInHead == pc = "error" /\ IsNone(head) /\ si \in 1..Len(doc)

\* The fields parse_statement reads before the account identifier are in order.
BeforeAcctInOrder(s) ==
    /\ Present(s, "Id")
    /\ ~StampBroken(s, "CreDtTm")
    /\ ~StampBroken(s, "FrToDt/FrDtTm")
    /\ ~StampBroken(s, "FrToDt/ToDtTm")

\* The statement-level error of line 489.
MissingAccountId == Raise("ValueError", "Missing AccountID elements", None)

\* No statement is built from a Stmt node whose account identifier cannot be
\* constructed, and parse_statement does not get to its balance blocks.
C12_NoStatement ==
    /\ \A i \in 1..Len(statements) : ~AcctBroken(doc[i])
    /\ (pc \in {"bal", "ntry"} /\ si \in 1..Len(doc)) => ~AcctBroken(doc[si])
    /\ (pc = "next" /\ si \in 1..Len(doc) /\ AcctBroken(doc[si])) =>
        ~IsOk(parse_statement_head(doc[si]))
    /\ pc = "done" => \A i \in 1..Len(doc) : ~AcctBroken(doc[i])

\* C12 as stated: in both cases of absence the error is MissingAccountId.
C12_AlwaysMissingAccountId ==
    (FailedInHead /\ BeforeAcctInOrder(doc[si]) /\ AcctBroken(doc[si])) =>
        error = MissingAccountId

\* C12, amended: a Stmt node whose account identifier cannot be constructed
\* yields no statement, whatever its balance blocks and entries are; when the
\* fields read before it are in order the error is MissingAccountId if the
\* Acct/Id node exists and holds neither an IBAN nor a generic id, and the
\* missing-element error of get_element, naming Acct/Id, if the node is missing.
C12_AccountIdMandatory ==
    /\ C12_NoStatement
    /\ (FailedInHead /\ BeforeAcctInOrder(doc[si]) /\ AcctBroken(doc[si])) =>
        IF Len(findall(doc[si], "Acct/Id")) > 0
        THEN error = MissingAccountId
        ELSE error = Raise("ValueError", "Missing mandatory element", Some("Acct/Id"))

C12_Witness ==
    /\ FailedInHead
    /\ Len(findall(doc[si], "Acct/Id")) > 0
    /\ AcctBroken(doc[si])
    /\ Len(Bals(doc[si])) = 1
    /\ ~BalViolates(Bals(doc[si])[1])
    /\ Len(Ntrys(doc[si])) = 1
    /\ ~NtryViolates(Ntrys(doc[si])[1])
    /\ error = MissingAccountId
    /\ IsNone(result)

----------------------------------------------------------------------------
(* C13 *)

\* s is a calendar date in the strict form.
StrictDate(s) == IsOk(date_fromisoformat(s))

\* C13: a string that is a strict ISO calendar date is returned as that date
\* with no warning; for any other string exactly one warning is emitted and
\* its first 10 characters are parsed: if they are a date, that date is
\* returned, otherwise the failure of the second parse leaves the call and no
\* date is returned.  "2024-01-15T00:00:00+01:00" gives 2024-01-15 with one
\* warning.
C13_TwoStepDate ==
    /\ date_pc \in {"returned", "raised"} =>
        IF StrictDate(date_in)
        THEN /\ date_pc = "returned"
             /\ date_warned = 0
             /\ date_out = Some(date_fromisoformat(date_in).val)
             /\ date_err = NoErr
        ELSE /\ date_warned = 1
             /\ IF StrictDate(Prefix(date_in, 10))
                THEN /\ date_pc = "returned"
                     /\ date_out = Some(date_fromisoformat(Prefix(date_in, 10)).val)
                     /\ date_err = NoErr
                ELSE /\ date_pc = "raised"
                     /\ IsNone(date_out)
                     /\ date_err = Raise("ValueError", "Invalid isoformat string",
                                         Some(Prefix(date_in, 10)))
    /\ (date_pc # "start" /\ date_in = T_Day15Tz) =>
        /\ date_out = Some([year |-> 2024, month |-> 1, day |-> 15])
        /\ date_warned = 1

C13_Witness ==
    /\ date_pc = "returned"
    /\ date_in = T_Day15Tz
    /\ date_out = Some([year |-> 2024, month |-> 1, day |-> 15])
    /\ date_warned = 1

----------------------------------------------------------------------------
(* C14 *)

\* The Balance of a well-formed balance block, read off the XML.
BalanceOfBlock(b) ==
    [amount   |-> IF Text(b, "CdtDbtInd") = DBIT THEN Negated(XmlAmount(b)) ELSE XmlAmount(b),
     currency |-> findall(b, "Amt")[1].attrib["Ccy"],
     date     |-> date_fromisoformat(Prefix(Text(b, "Dt/Dt"), 10)).val]

\* The index of the last of the first k blocks whose type code is code, or 0.
LastOfType(blocks, k, code) ==
    IF \E i \in 1..k : Text(blocks[i], "Tp/CdOrPrtry/Cd") = code
    THEN CHOOSE i \in 1..k :
            /\ Text(blocks[i], "Tp/CdOrPrtry/Cd") = code
            /\ \A j \in (i + 1)..k : Text(blocks[j], "Tp/CdOrPrtry/Cd") # code
    ELSE 0

\* slot is the balance of the last block of type code among the first k.
SlotIsLast(slot, blocks, k, code) ==
    IF LastOfType(blocks, k, code) = 0 THEN IsNone(slot)
    ELSE slot = Some(BalanceOfBlock(blocks[LastOfType(blocks, k, code)]))

\* C14: after any number of well-formed balance blocks the opening balance is
\* the balance of the last OPBD block read (absent exactly when there is
\* none) and the closing balance that of the last CLBD block read (absent
\* exactly when there is none), each whatever the blocks of the other type
\* are; the statement built carries the two slots as they are after the last
\* block.
C14_LastWins ==
    /\ InStatement =>
        /\ SlotIsLast(opening_balance, Bals(doc[si]), bi, OPBD)
        /\ SlotIsLast(closing_balance, Bals(doc[si]), bi, CLBD)
    /\ \A i \in 1..Len(statements) :
        /\ SlotIsLast(statements[i].opening_balance, Bals(doc[i]), Len(Bals(doc[i])), OPBD)
        /\ SlotIsLast(statements[i].closing_balance, Bals(doc[i]), Len(Bals(doc[i])), CLBD)

C14_Witness ==
    /\ pc = "done"
    /\ Len(doc) = 1
    /\ Len(Bals(doc[1])) = 2
    /\ Text(Bals(doc[1])[1], "Tp/CdOrPrtry/Cd") = OPBD
    /\ Text(Bals(doc[1])[2], "Tp/CdOrPrtry/Cd") = OPBD
    /\ BalanceOfBlock(Bals(doc[1])[1]) # BalanceOfBlock(Bals(doc[1])[2])
    /\ Val(result)[1].opening_balance = Some(BalanceOfBlock(Bals(doc[1])[2]))
    /\ IsNone(Val(result)[1].closing_balance)

====
